---- MODULE Spec2Model ----
(***************************************************************************)
(* Gate pipeline of the market scanner (src/scanner_core.py).              *)
(*                                                                         *)
(* Units.  Prices are whole dollars, volumes are thousands of shares,      *)
(* dollar volume is thousands of dollars, and every ratio / threshold of   *)
(* the configuration is kept in thousandths (0.035 is 35).  Comparisons    *)
(* are cross-multiplied and values that are reported are kept as exact     *)
(* fractions <<num, den>>.  The one place where the rounding of the        *)
(* code's doubles changes a result on these inputs is math.ceil of a       *)
(* product, which CeilPercent models.                                      *)
(***************************************************************************)
EXTENDS Integers, Sequences, FiniteSets, TLC

\* ------------------------------------------------------------------ bounds
\* longest series is MIN_LEN + MaxExtra bars
MaxExtra == 1
\* at most MaxEvents gap / drift days inside the tightness window
MaxEvents == 2

\* --------------------------------------------------- program constants
\* "if len(df) < 260" and "aligned.shape[0] < 260"
MIN_LEN == 260
\* config.MIN_PRICE
MIN_PRICE == 15
\* config.MIN_DOLLAR_VOL_20D, thousands of dollars (20M USD)
MIN_DOLLAR_VOL_20D == 20000
\* config.LOW_52W_MULTIPLIER, thousandths (0.25)
LOW_52W_MULTIPLIER == 250
\* config.CONSOLIDATION_MAX_DEPTH_60D, thousandths (0.30)
CONSOLIDATION_MAX_DEPTH_60D == 300
\* config.VDU_MAX_RATIO, thousandths (0.70)
VDU_MAX_RATIO == 700
\* config.VCP_TIGHT_DAYS
VCP_TIGHT_DAYS == 10
\* config.VCP_GAP_THRESHOLD, thousandths (0.04)
VCP_GAP_THRESHOLD == 40
\* config.VCP_DEFAULT_TIGHTNESS, thousandths (0.035)
VCP_DEFAULT_TIGHTNESS == 35
\* config.LEADER_PEAK_LOOKBACK_D
LEADER_PEAK_LOOKBACK_D == 126
\* config.MIN_PEAK_EXCESS_3M, thousandths (0.15)
MIN_PEAK_EXCESS_3M == 150
\* config.MIN_PEAK_EXCESS_6M, thousandths (0.25)
MIN_PEAK_EXCESS_6M == 250
\* config.RESILIENCE_LOOKBACK_D
RESILIENCE_LOOKBACK_D == 126
\* config.MIN_RS_NEAR_HIGH_PCT, thousandths (0.92)
MIN_RS_NEAR_HIGH_PCT == 920
\* config.MAX_RS_DD_TO_PRICE_DD_RATIO, thousandths (0.60)
MAX_RS_DD_TO_PRICE_DD_RATIO == 600
\* config.MIN_PRICE_DD, thousandths (0.05)
MIN_PRICE_DD == 50
\* config.MAX_PRICE_DD, thousandths (0.35)
MAX_PRICE_DD == 350
\* config.RS_MA_LEN
RS_MA_LEN == 20
\* config.RS_SLOPE_LOOKBACK_D
RS_SLOPE_LOOKBACK_D == 5
\* config.MIN_RS_MA20_SLOPE, thousandths (0.0)
MIN_RS_MA20_SLOPE == 0

\* ------------------------------------------------------------ arithmetic
Max2(a, b) == IF a >= b THEN a ELSE b
Min2(a, b) == IF a <= b THEN a ELSE b

\* math.ceil(a / b) for b > 0
CeilDiv(a, b) == -((-a) \div b)

RECURSIVE SumRange(_, _, _)
\* s[lo] + ... + s[hi], by halves
SumRange(s, lo, hi) ==
    IF lo > hi THEN 0
    ELSE IF lo = hi THEN s[lo]
    ELSE LET mid == (lo + hi) \div 2
         IN  SumRange(s, lo, mid) + SumRange(s, mid + 1, hi)
\* Series.sum()
SeqSum(s) == SumRange(s, 1, Len(s))

\* the values of a sequence
Range(s) == {s[j] : j \in DOMAIN s}

\* max(list) / Series.max() of a non-empty sequence
SeqMax(s) == CHOOSE x \in Range(s) : \A y \in Range(s) : y <= x

\* min(list) / Series.min() of a non-empty sequence
SeqMin(s) == CHOOSE x \in Range(s) : \A y \in Range(s) : x <= y

\* Series.tail(m): the last m entries, all of them when there are fewer
TailN(s, m) == SubSeq(s, Max2(1, Len(s) - m + 1), Len(s))

\* df['Close'] and the other columns
Column(df, f) == [j \in 1..Len(df) |-> df[j][f]]

\* ------------------------------------------------------------ input series
(* A bar series is a sequence of bars [Open, High, Low, Close, Volume]; the  *)
(* bar at position j carries date j.  The benchmark close series is a        *)
(* function from its own dates to closes.  The inputs are built from a       *)
(* scenario sc; k counts days back from the last bar (k = 0 is the last).    *)

\* close of the price profile before the events of the tightness window
ProfileClose(sc, k) ==
    IF k >= 130 THEN sc.base ELSE IF k >= 60 THEN sc.peak ELSE sc.level

\* position of day k in the VCP_TIGHT_DAYS window (0 = oldest), < 0 outside
WinIdx(k) == VCP_TIGHT_DAYS - 1 - k

RECURSIVE EventShift(_, _, _)
\* sum of the close moves of the events on or before window position w
EventShift(ev, j, w) ==
    IF j > Len(ev) THEN 0
    ELSE (IF ev[j].w <= w THEN ev[j].c ELSE 0) + EventShift(ev, j + 1, w)

CloseAt(sc, k) == ProfileClose(sc, k) + EventShift(sc.events, 1, WinIdx(k))

\* the open gap of day k: the open move of the event on that day, if any
GapAt(sc, k) ==
    LET hit == {j \in 1..Len(sc.events) : sc.events[j].w = WinIdx(k)}
    IN  IF hit = {} THEN 0 ELSE sc.events[CHOOSE j \in hit : TRUE].o

OpenAt(sc, k) ==
    IF k = sc.n - 1 THEN CloseAt(sc, k) ELSE CloseAt(sc, k + 1) + GapAt(sc, k)

BarAt(sc, k) ==
    LET o == OpenAt(sc, k)
        c == CloseAt(sc, k)
    IN  [Open   |-> o,
         High   |-> Max2(o, c),
         Low    |-> IF k = 30 /\ sc.dip > 0 THEN Min2(sc.dip, Min2(o, c))
                    ELSE Min2(o, c),
         Close  |-> c,
         Volume |-> IF k < 3 THEN sc.v3 ELSE sc.V]

MakeSeries(sc) == [j \in 1..sc.n |-> BarAt(sc, sc.n - j)]

\* benchmark close k days before the stock's last bar
BenchAt(sc, k) ==
    IF sc.bq = "leader"
    THEN (IF k >= 60 THEN 10 ELSE IF k >= 10 THEN 9 ELSE 8)
    ELSE IF sc.bq = "steps"
    THEN sc.steps[CHOOSE x \in 1..Len(sc.steps) :
                    /\ k >= sc.steps[x][1]
                    /\ \A y \in 1..(x - 1) : k < sc.steps[y][1]][2]
    ELSE 10

\* the benchmark: None, the empty series, or closes on date 0 (before the
\* stock's first bar) and on every stock date that is not in sc.holes
MakeBench(sc) ==
    [is_none |-> sc.bq = "none",
     val     |-> IF sc.bq \in {"none", "empty"} THEN << >>
                 ELSE [d \in (0..sc.n) \ sc.holes |-> BenchAt(sc, sc.n - d)]]

\* ------------------------------------------- check_vcp_criteria: the gates
\* close.iloc[-1]
LastClose(df) == df[Len(df)].Close

\* vol.tail(m).sum(); the mean is this sum over Len(TailN(.., m))
VolSum(df, m) == SeqSum(TailN(Column(df, "Volume"), m))
VolCount(df, m) == Len(TailN(Column(df, "Volume"), m))

\* mutant: the length gate lets a 259-bar series through
LengthGate_OffByOne(df) == ~(Len(df) < MIN_LEN - 1)

\* 0. "if len(df) < 260: return False"
LengthGate(df) == ~(Len(df) < MIN_LEN)

\* 1a. "if current_c < cfg.MIN_PRICE: return False"
PriceGate(df) == ~(LastClose(df) < MIN_PRICE)

\* 1b. dollar_vol = current_c * avg_vol_20;
\*     "if dollar_vol < cfg.MIN_DOLLAR_VOL_20D: return False"
LiquidityGate(df) ==
    ~(LastClose(df) * VolSum(df, 20) < MIN_DOLLAR_VOL_20D * VolCount(df, 20))

\* low.tail(250).min()
Low52w(df) == SeqMin(TailN(Column(df, "Low"), 250))

\* 2. "if current_c < (low_52w * cfg.LOW_52W_MULTIPLIER): return False"
PositionGate(df) == ~(LastClose(df) * 1000 < Low52w(df) * LOW_52W_MULTIPLIER)

\* 3. consolidation_depth = (high_60 - low_60) / high_60;
\*    "if consolidation_depth > cfg.CONSOLIDATION_MAX_DEPTH_60D: return False"
ConsolidationGate(df) ==
    LET high_60 == SeqMax(TailN(Column(df, "High"), 60))
        low_60  == SeqMin(TailN(Column(df, "Low"), 60))
    IN  ~((high_60 - low_60) * 1000 > CONSOLIDATION_MAX_DEPTH_60D * high_60)

\* mutant: a 3-day average equal to the limit passes
VduGate_Inclusive(df) ==
    ~(VolSum(df, 3) * VolCount(df, 20) * 1000
        > VolSum(df, 20) * VDU_MAX_RATIO * VolCount(df, 3))

\* 4. "if avg_vol_3 >= (avg_vol_20 * cfg.VDU_MAX_RATIO): return False"
VduGate(df) ==
    ~(VolSum(df, 3) * VolCount(df, 20) * 1000
        >= VolSum(df, 20) * VDU_MAX_RATIO * VolCount(df, 3))

\* mutant: a gap equal to the threshold resets the window too
GapResets_Inclusive(prev_c, curr_o) ==
    (curr_o - prev_c) * 1000 >= VCP_GAP_THRESHOLD * prev_c

\* 5. the dynamic tightness loop: "if gap_magnitude > gap_threshold"
\*    with gap_magnitude = (curr_o - prev_c) / prev_c
GapResets(prev_c, curr_o) ==
    (curr_o - prev_c) * 1000 > VCP_GAP_THRESHOLD * prev_c

\* mutant: the smaller of the two magnitudes
MaxMagnitude_Min(prev_c, curr_o, curr_c) == Min2(curr_o - prev_c, curr_c - prev_c)

\* max_magnitude = max(gap_magnitude, day_gain_magnitude), times prev_c
MaxMagnitude(prev_c, curr_o, curr_c) == Max2(curr_o - prev_c, curr_c - prev_c)

\* the whole percentages k up to 200 whose double (k / 100) * 100 lies above
\* k (0.07 * 100 is 7.000000000000001), so that math.ceil gives k + 1
CeilsAbove == {7, 14, 28, 55, 56, 109, 110, 111, 112}

\* math.ceil((num / den) * 100) on doubles, for whole num, den > 0: the
\* quotient is the double nearest num / den, so a whole percentage k gives
\* ceil((k / 100) * 100); any other percentage lies at least 1 / den from a
\* whole number and its ceiling is exact
CeilPercent(num, den) ==
    IF (num * 100) % den = 0 /\ ((num * 100) \div den) \in CeilsAbove
    THEN (num * 100) \div den + 1
    ELSE CeilDiv(num * 100, den)

\* allowed_tightness = math.ceil(max_magnitude * 100) / 100.0, in thousandths
ResetTightness(prev_c, curr_o, curr_c) ==
    10 * CeilPercent(MaxMagnitude(prev_c, curr_o, curr_c), prev_c)

\* mutant: the whole window, the closes before the reset included
AdjustedCloses_All(recent_closes, valid_start_index) == recent_closes

\* recent_closes[valid_start_index:] (Python counts from 0)
AdjustedCloses(recent_closes, valid_start_index) ==
    SubSeq(recent_closes, valid_start_index + 1, Len(recent_closes))

\* "if len(adjusted_closes) < 2: pass / else: ... if range_pct >
\* allowed_tightness: return False", range_pct = (max_c - min_c) / current_c
TightnessGate(recent_closes, valid_start_index, allowed_tightness, current_c) ==
    LET adjusted_closes == AdjustedCloses(recent_closes, valid_start_index)
    IN  IF Len(adjusted_closes) < 2 THEN TRUE
        ELSE ~((SeqMax(adjusted_closes) - SeqMin(adjusted_closes)) * 1000
                  > allowed_tightness * current_c)

\* close.tail(m).sum(): ta.sma(close, length=m).iloc[-1] is this sum over m
CloseSum(df, m) == SeqSum(TailN(Column(df, "Close"), m))

\* 7. "if current_c < sma50.iloc[-1]: return False" and
\*    "if sma50.iloc[-1] < sma200.iloc[-1]: return False"
TrendGate(df) ==
    /\ ~(LastClose(df) * 50 < CloseSum(df, 50))
    /\ ~(CloseSum(df, 50) * 200 < CloseSum(df, 200) * 50)

\* ------------------------------------------------------ exact fractions
(* A float of the code is a fraction <<num, den>> in lowest terms with     *)
(* den > 0; NaN is <<0, 0>> and +infinity is <<1, 0>>.                      *)
NaN == <<0, 0>>
Inf == <<1, 0>>

Abs(a) == IF a < 0 THEN -a ELSE a

RECURSIVE Gcd(_, _)
Gcd(a, b) == IF b = 0 THEN a ELSE Gcd(b, a % b)

\* the fraction n / d, d # 0, in lowest terms
Frac(n, d) ==
    LET g == Gcd(Abs(n), Abs(d))
        sg == IF d < 0 THEN -1 ELSE 1
    IN  <<sg * (n \div g), sg * (d \div g)>>

\* pd.isna / pd.notna
IsNaN(x) == x = NaN
NotNaN(x) == x # NaN

RAdd(x, y) == Frac(x[1] * y[2] + y[1] * x[2], x[2] * y[2])
RSub(x, y) == Frac(x[1] * y[2] - y[1] * x[2], x[2] * y[2])
\* x < y, x <= y on finite fractions
RLt(x, y) == x[1] * y[2] < y[1] * x[2]
RLe(x, y) == x[1] * y[2] <= y[1] * x[2]
\* comparisons of a finite fraction with a threshold t given in thousandths
RGeMille(x, t) == x[1] * 1000 >= t * x[2]
RLeMille(x, t) == x[1] * 1000 <= t * x[2]
RGtMille(x, t) == x[1] * 1000 > t * x[2]
\* float(x * 100.0)
Times100(x) == Frac(x[1] * 100, x[2])
One == <<1, 1>>

\* _safe_div(a, b, default): "if b == 0 or pd.isna(b): return default";
\* a NaN numerator gives NaN (a / b on floats)
SafeDiv(x, y, default) ==
    IF IsNaN(y) \/ y[1] = 0 THEN default
    ELSE IF IsNaN(x) THEN NaN
    ELSE Frac(x[1] * y[2], x[2] * y[1])

\* 1.0 - x on floats
OneMinus(x) == IF IsNaN(x) THEN NaN ELSE RSub(One, x)

\* Series.max(skipna=True): NaN when every entry is NaN (or there is none)
RMax(s) ==
    LET R == Range(s) \ {NaN}
    IN  IF R = {} THEN NaN ELSE CHOOSE x \in R : \A y \in R : RLe(y, x)

RECURSIVE RSumRange(_, _, _)
RSumRange(s, lo, hi) ==
    IF lo > hi THEN <<0, 1>>
    ELSE IF lo = hi THEN s[lo]
    ELSE LET mid == (lo + hi) \div 2
         IN  RAdd(RSumRange(s, lo, mid), RSumRange(s, mid + 1, hi))
\* the sum of a sequence of fractions
RSum(s) == RSumRange(s, 1, Len(s))

\* ------------------------------------- compute_fallen_angel_rs_features
\* the value reindex() gives a date the benchmark does not have (NaN)
Missing == -1

\* qqq_close.reindex(close.index): the benchmark on the stock's dates 1..n
Reindex(q, n) == [j \in 1..n |-> IF j \in DOMAIN q THEN q[j] ELSE Missing]

RECURSIVE FfillRange(_, _, _, _)
\* s[lo..hi] forward-filled, last being the last value seen before lo
FfillRange(s, lo, hi, last) ==
    IF lo > hi THEN << >>
    ELSE IF lo = hi THEN << IF s[lo] # Missing THEN s[lo] ELSE last >>
    ELSE LET mid   == (lo + hi) \div 2
             left  == FfillRange(s, lo, mid, last)
         IN  left \o FfillRange(s, mid + 1, hi, left[Len(left)])
\* mutant: no forward fill, a date the benchmark lacks stays missing
Ffill_None(s) == s

\* Series.ffill(): a missing entry takes the last earlier value, if any
Ffill(s) == FfillRange(s, 1, Len(s), Missing)

\* bench = qqq_close.reindex(close.index).ffill()
\* aligned = pd.concat([close, bench], axis=1).dropna(): rows <<close, bench>>
Aligned(df, q) ==
    LET close == Column(df, "Close")
        bench == Ffill(Reindex(q, Len(close)))
        rows  == [j \in 1..Len(close) |-> <<close[j], bench[j]>>]
    IN  SelectSeq(rows, LAMBDA r : r[2] # Missing)

\* rs_line = close_s / close_b at row t
RsAt(al, t) == Frac(al[t][1], al[t][2])

\* (close_s.pct_change(k) - close_b.pct_change(k)).tail(LEADER_PEAK_LOOKBACK_D)
ExcessTail(al, k) ==
    LET m  == Len(al)
        lo == Max2(1, m - LEADER_PEAK_LOOKBACK_D + 1)
    IN  [x \in 1..(m - lo + 1) |->
            LET t == lo + x - 1
            IN  IF t <= k THEN NaN
                ELSE RSub(Frac(al[t][1], al[t - k][1]), Frac(al[t][2], al[t - k][2]))]

\* max(max_ex3 or -999, max_ex6 or -999), NaN when both peaks are NaN
LeaderPeakExcess(max_ex3, max_ex6) ==
    LET a == IF NotNaN(max_ex3) THEN max_ex3 ELSE <<-999, 1>>
        b == IF NotNaN(max_ex6) THEN max_ex6 ELSE <<-999, 1>>
        leader_peak_excess == IF RLt(a, b) THEN b ELSE a
    IN  IF leader_peak_excess # <<-999, 1>> THEN Times100(leader_peak_excess)
        ELSE NaN

\* mutant: the 6-month peak must exceed its threshold
LeaderOk_Strict(max_ex3, max_ex6) ==
    \/ NotNaN(max_ex3) /\ RGeMille(max_ex3, MIN_PEAK_EXCESS_3M)
    \/ NotNaN(max_ex6) /\ RGtMille(max_ex6, MIN_PEAK_EXCESS_6M)


\* cond_a3 or cond_a6
LeaderOk(max_ex3, max_ex6) ==
    \/ NotNaN(max_ex3) /\ RGeMille(max_ex3, MIN_PEAK_EXCESS_3M)
    \/ NotNaN(max_ex6) /\ RGeMille(max_ex6, MIN_PEAK_EXCESS_6M)

\* A) Leader Peak: [ok, the leader_peak_excess feature]
StageA(al) ==
    [ok |-> LeaderOk(RMax(ExcessTail(al, 63)), RMax(ExcessTail(al, 126))),
     leader_peak_excess |->
        LeaderPeakExcess(RMax(ExcessTail(al, 63)), RMax(ExcessTail(al, 126)))]

\* Series.rolling(w).max().iloc[-1] over rows <<num, den>>: NaN under w rows
RollingMaxLast(s, w) == IF Len(s) < w THEN NaN ELSE RMax(TailN(s, w))

\* mutant: a price drawdown of exactly MIN_PRICE_DD is refused
StageB_OpenLow(al) ==
    LET m        == Len(al)
        lb       == RESILIENCE_LOOKBACK_D
        c_now    == Frac(al[m][1], 1)
        rs_now   == RsAt(al, m)
        ph_now   == RollingMaxLast([t \in 1..m |-> Frac(al[t][1], 1)], lb)
        rsh_now  == RollingMaxLast([t \in 1..m |-> RsAt(al, t)], lb)
        price_dd == OneMinus(SafeDiv(c_now, ph_now, NaN))
        rs_dd    == OneMinus(SafeDiv(rs_now, rsh_now, NaN))
        rs_near_high_pct == SafeDiv(rs_now, rsh_now, NaN)
        ratio    == SafeDiv(rs_dd, price_dd, Inf)
        dd_ok    == /\ NotNaN(price_dd)
                    /\ RGtMille(price_dd, MIN_PRICE_DD)
                    /\ RLeMille(price_dd, MAX_PRICE_DD)
        resilience_ok ==
                    /\ NotNaN(rs_near_high_pct)
                    /\ RGeMille(rs_near_high_pct, MIN_RS_NEAR_HIGH_PCT)
                    /\ NotNaN(ratio)
                    /\ ratio # Inf
                    /\ RLeMille(ratio, MAX_RS_DD_TO_PRICE_DD_RATIO)
    IN  [ok |-> dd_ok /\ resilience_ok,
         rs_near_high_pct |->
            IF NotNaN(rs_near_high_pct) THEN Times100(rs_near_high_pct) ELSE NaN,
         rs_dd_vs_price_dd |-> ratio]


\* mutant: the ratio falls back to NaN, as the other quotients do
StageB_NanRatio(al) ==
    LET m        == Len(al)
        lb       == RESILIENCE_LOOKBACK_D
        c_now    == Frac(al[m][1], 1)
        rs_now   == RsAt(al, m)
        ph_now   == RollingMaxLast([t \in 1..m |-> Frac(al[t][1], 1)], lb)
        rsh_now  == RollingMaxLast([t \in 1..m |-> RsAt(al, t)], lb)
        price_dd == OneMinus(SafeDiv(c_now, ph_now, NaN))
        rs_dd    == OneMinus(SafeDiv(rs_now, rsh_now, NaN))
        rs_near_high_pct == SafeDiv(rs_now, rsh_now, NaN)
        ratio    == SafeDiv(rs_dd, price_dd, NaN)
        dd_ok    == /\ NotNaN(price_dd)
                    /\ RGeMille(price_dd, MIN_PRICE_DD)
                    /\ RLeMille(price_dd, MAX_PRICE_DD)
        resilience_ok ==
                    /\ NotNaN(rs_near_high_pct)
                    /\ RGeMille(rs_near_high_pct, MIN_RS_NEAR_HIGH_PCT)
                    /\ NotNaN(ratio)
                    /\ ratio # Inf
                    /\ RLeMille(ratio, MAX_RS_DD_TO_PRICE_DD_RATIO)
    IN  [ok |-> dd_ok /\ resilience_ok,
         rs_near_high_pct |->
            IF NotNaN(rs_near_high_pct) THEN Times100(rs_near_high_pct) ELSE NaN,
         rs_dd_vs_price_dd |-> ratio]


\* B) Resilience: [ok, rs_near_high_pct, rs_dd_vs_price_dd]
StageB(al) ==
    LET m        == Len(al)
        lb       == RESILIENCE_LOOKBACK_D
        c_now    == Frac(al[m][1], 1)
        rs_now   == RsAt(al, m)
        ph_now   == RollingMaxLast([t \in 1..m |-> Frac(al[t][1], 1)], lb)
        rsh_now  == RollingMaxLast([t \in 1..m |-> RsAt(al, t)], lb)
        price_dd == OneMinus(SafeDiv(c_now, ph_now, NaN))
        rs_dd    == OneMinus(SafeDiv(rs_now, rsh_now, NaN))
        rs_near_high_pct == SafeDiv(rs_now, rsh_now, NaN)
        ratio    == SafeDiv(rs_dd, price_dd, Inf)
        dd_ok    == /\ NotNaN(price_dd)
                    /\ RGeMille(price_dd, MIN_PRICE_DD)
                    /\ RLeMille(price_dd, MAX_PRICE_DD)
        resilience_ok ==
                    /\ NotNaN(rs_near_high_pct)
                    /\ RGeMille(rs_near_high_pct, MIN_RS_NEAR_HIGH_PCT)
                    /\ NotNaN(ratio)
                    /\ ratio # Inf
                    /\ RLeMille(ratio, MAX_RS_DD_TO_PRICE_DD_RATIO)
    IN  [ok |-> dd_ok /\ resilience_ok,
         rs_near_high_pct |->
            IF NotNaN(rs_near_high_pct) THEN Times100(rs_near_high_pct) ELSE NaN,
         rs_dd_vs_price_dd |-> ratio]

\* rs_line.rolling(RS_MA_LEN).mean() at row t: NaN under RS_MA_LEN rows
RsMaAt(al, t) ==
    IF t < RS_MA_LEN THEN NaN
    ELSE LET sum == RSum([x \in 1..RS_MA_LEN |-> RsAt(al, t - RS_MA_LEN + x)])
         IN  Frac(sum[1], sum[2] * RS_MA_LEN)

\* mutant: a slope equal to MIN_RS_MA20_SLOPE passes
StageC_Inclusive(al) ==
    LET m           == Len(al)
        rs_now      == RsAt(al, m)
        rs_ma_now   == RsMaAt(al, m)
        rs_ma_prev  == IF m - RS_SLOPE_LOOKBACK_D < 1 THEN NaN
                       ELSE RsMaAt(al, m - RS_SLOPE_LOOKBACK_D)
        ratio       == SafeDiv(rs_ma_now, rs_ma_prev, NaN)
        rs_ma_slope == IF IsNaN(ratio) THEN NaN ELSE RSub(ratio, One)
    IN  [defined |-> NotNaN(rs_ma_now),
         ok |-> /\ NotNaN(rs_ma_now)
                /\ RLt(rs_ma_now, rs_now)
                /\ NotNaN(rs_ma_slope)
                /\ RGeMille(rs_ma_slope, MIN_RS_MA20_SLOPE),
         rs_ma20_slope |->
            IF NotNaN(rs_ma_slope) THEN Times100(rs_ma_slope) ELSE NaN]


\* C) Turn-up: [defined, ok, rs_ma20_slope]
StageC(al) ==
    LET m           == Len(al)
        rs_now      == RsAt(al, m)
        rs_ma_now   == RsMaAt(al, m)
        rs_ma_prev  == IF m - RS_SLOPE_LOOKBACK_D < 1 THEN NaN
                       ELSE RsMaAt(al, m - RS_SLOPE_LOOKBACK_D)
        ratio       == SafeDiv(rs_ma_now, rs_ma_prev, NaN)
        rs_ma_slope == IF IsNaN(ratio) THEN NaN ELSE RSub(ratio, One)
    IN  [defined |-> NotNaN(rs_ma_now),
         ok |-> /\ NotNaN(rs_ma_now)
                /\ RLt(rs_ma_now, rs_now)
                /\ NotNaN(rs_ma_slope)
                /\ RGtMille(rs_ma_slope, MIN_RS_MA20_SLOPE),
         rs_ma20_slope |->
            IF NotNaN(rs_ma_slope) THEN Times100(rs_ma_slope) ELSE NaN]

\* the features dict
Features(leader_peak_excess, rs_near_high_pct, rs_dd_vs_price_dd, rs_ma20_slope) ==
    [leader_peak_excess |-> leader_peak_excess,
     rs_near_high_pct   |-> rs_near_high_pct,
     rs_dd_vs_price_dd  |-> rs_dd_vs_price_dd,
     rs_ma20_slope      |-> rs_ma20_slope]

\* the features dict as first built: all four NaN
NoFeatures == Features(NaN, NaN, NaN, NaN)

\* lines 180-196: stage C and the final verdict
AfterStageB(A, B, C) ==
    IF ~C.defined
    THEN [pass |-> FALSE,
          features |-> Features(A.leader_peak_excess, B.rs_near_high_pct,
                                B.rs_dd_vs_price_dd, NaN)]
    ELSE [pass |-> C.ok,
          features |-> Features(A.leader_peak_excess, B.rs_near_high_pct,
                                B.rs_dd_vs_price_dd, C.rs_ma20_slope)]

\* mutant: a stage B failure does not return
AfterStageA_NoReturn(al, A, B) ==
    AfterStageB(A, B, StageC(al))


\* lines 147-178: stage B, returning on a failure
AfterStageA(al, A, B) ==
    IF ~B.ok
    THEN [pass |-> FALSE,
          features |-> Features(A.leader_peak_excess, B.rs_near_high_pct,
                                B.rs_dd_vs_price_dd, NaN)]
    ELSE AfterStageB(A, B, StageC(al))

\* lines 127-148: stage A, returning on a failure or under lb + 5 rows
AfterAlign(al, A) ==
    IF ~A.ok \/ Len(al) < RESILIENCE_LOOKBACK_D + 5
    THEN [pass |-> FALSE, features |-> Features(A.leader_peak_excess, NaN, NaN, NaN)]
    ELSE AfterStageA(al, A, StageB(al))

\* lines 117-125: the aligned frame must have MIN_LEN rows
FromAligned(al) ==
    IF Len(al) < MIN_LEN THEN [pass |-> FALSE, features |-> NoFeatures]
    ELSE AfterAlign(al, StageA(al))

\* compute_fallen_angel_rs_features(df_stock, qqq_close): [pass, features]
compute_fallen_angel_rs_features(df, qqq) ==
    IF Len(df) = 0 \/ qqq.is_none \/ DOMAIN qqq.val = {}
    THEN [pass |-> FALSE, features |-> NoFeatures]
    ELSE FromAligned(Aligned(df, qqq.val))

\* ------------------------------------------------ diagnose_single_stock
RECURSIVE TightnessLoop(_, _, _, _, _)
\* "for i in range(1, len(recent_closes))" run to its end from iteration i
\* (Python index i is position i + 1): [valid_start_index, allowed_tightness]
TightnessLoop(recent_closes, recent_opens, i, valid_start_index, allowed_tightness) ==
    IF i >= Len(recent_closes)
    THEN [valid_start_index |-> valid_start_index,
          allowed_tightness |-> allowed_tightness]
    ELSE LET prev_c == recent_closes[i]
             curr_o == recent_opens[i + 1]
             curr_c == recent_closes[i + 1]
         IN  IF GapResets(prev_c, curr_o)
             THEN TightnessLoop(recent_closes, recent_opens, i + 1, i,
                                ResetTightness(prev_c, curr_o, curr_c))
             ELSE TightnessLoop(recent_closes, recent_opens, i + 1,
                                valid_start_index, allowed_tightness)

\* mutant: the verdict is that of the last gate
Verdict_LastGate(report) ==
    [is_pass |-> report[Len(report)][2],
     report  |-> report]


\* is_pass = all(r['pass'] for r in report.values())
Verdict(report) ==
    [is_pass |-> \A x \in 1..Len(report) : report[x][2],
     report  |-> report]

\* diagnose_single_stock(df, symbol, qqq_df): [is_pass, report]; report
\* lists every gate that was evaluated with its verdict, in order.  The
\* thresholds are the literals of the function (10, 20000000, 1.25, 0.30,
\* 0.70, 0.035); the bars carry no NaN, so df.dropna() keeps them all.
diagnose_single_stock(df, qqq_df) ==
    IF Len(df) < 260 THEN [is_pass |-> FALSE, report |-> << >>]
    ELSE
    LET c_now   == LastClose(df)
        price   == c_now >= 10
        liquid  == c_now * VolSum(df, 20) >= 20000 * VolCount(df, 20)
        low_52w == Low52w(df)
        posit   == c_now * 100 >= low_52w * 125
        high_60 == SeqMax(TailN(Column(df, "High"), 60))
        low_60  == SeqMin(TailN(Column(df, "Low"), 60))
        depth   == (high_60 - low_60) * 100 <= 30 * high_60
        vdu     == VolSum(df, 3) * VolCount(df, 20) * 100
                     < 70 * VolSum(df, 20) * VolCount(df, 3)
        recent_closes == TailN(Column(df, "Close"), VCP_TIGHT_DAYS)
        recent_opens  == TailN(Column(df, "Open"), VCP_TIGHT_DAYS)
        loop    == TightnessLoop(recent_closes, recent_opens, 1, 0, 35)
        adjusted_closes == AdjustedCloses(recent_closes, loop.valid_start_index)
        tight   == (SeqMax(adjusted_closes) - SeqMin(adjusted_closes)) * 1000
                     <= loop.allowed_tightness * c_now
        has_rs  == ~qqq_df.is_none /\ DOMAIN qqq_df.val # {}
        rs      == compute_fallen_angel_rs_features(df, qqq_df)
        trend   == /\ c_now * 50 > CloseSum(df, 50)
                   /\ CloseSum(df, 50) * 200 > CloseSum(df, 200) * 50
    IN  Verdict(<< <<"price", price>>, <<"liquidity", liquid>>,
                   <<"position", posit>>, <<"consolidation", depth>>,
                   <<"vdu", vdu>>, <<"tightness", tight>> >>
                \o (IF has_rs THEN << <<"rs", rs.pass>> >> ELSE << >>)
                \o << <<"trend", trend>> >>)

\* ------------------------------------------------------------- scenarios
\* a leader that ran from 300 to 560, pulled back to 500 and went quiet,
\* against a benchmark that fell with it: passes every gate
Base(n) ==
    [n |-> n, base |-> 300, peak |-> 560, level |-> 500, dip |-> 0,
     V |-> 179, v3 |-> 118, events |-> << >>, bq |-> "leader", holes |-> {},
     steps |-> << >>]

Lens == {0, 1, MIN_LEN - 1} \cup (MIN_LEN .. MIN_LEN + MaxExtra)
LongLens == MIN_LEN .. MIN_LEN + MaxExtra

\* <<base, peak, level>> price profiles
Profiles ==
    { <<300, 560, 500>>, <<400, 560, 500>>, <<401, 560, 500>>,
      <<2000, 560, 500>>, <<500, 500, 500>>,
      <<10, 10, 10>>, <<14, 14, 14>>, <<15, 15, 15>> }

\* <<V, v3>>: volume of the older days and of the last three days
Volumes == { <<179, 118>>, <<179, 119>>, <<179, 179>>, <<40, 40>>, <<39, 39>>, <<1, 1>> }

\* low of the day 30 bars back (0: no dip)
Dips == {0, 392, 391}

\* open move and close move of an eventful day, in dollars over the
\* previous close
EventKinds ==
    { <<20, 20>>, <<25, 47>>, <<35, 35>>, <<21, 10>>, <<0, 17>>, <<0, -25>>, <<30, -5>> }
\* the window positions (0 = oldest day) an event may fall on
EventDays == {1, 5, VCP_TIGHT_DAYS - 1}
Events == {[w |-> w, o |-> k[1], c |-> k[2]] : w \in EventDays, k \in EventKinds}

\* the event lists of a window: at most MaxEvents events on increasing days
EventLists ==
    UNION { {ev \in [1..m -> Events] :
                \A a \in 1..m : \A b \in 1..m : a < b => ev[a].w < ev[b].w}
            : m \in 0..MaxEvents }

\* dates the benchmark does not have
HoleSets(n) ==
    { h \in { {}, {1}, {1, 2}, {100}, {1, 100}, {n - 59}, {n} } : h \subseteq 1..n }

\* <<stock profile, benchmark steps>>: the benchmark closes at steps[x][2]
\* on the days at least steps[x][1] back (first x that applies)
StageCases ==
    { \* stage A: 3-month peak only, 6-month peak of exactly 0.25, just below
      \* either threshold, and a benchmark that tracks the stock
      << <<100, 120, 120>>, << <<0, 10>> >> >>,
      << <<400, 450, 500>>, << <<0, 10>> >> >>,
      << <<400, 450, 499>>, << <<0, 10>> >> >>,
      << <<400, 459, 459>>, << <<0, 10>> >> >>,
      << <<300, 560, 500>>, << <<130, 30>>, <<60, 56>>, <<0, 50>> >> >>,
      \* stage B: price_dd 0.10 with rs_dd 0.02, the same with price_dd 0.45
      << <<600, 1000, 900>>, << <<60, 98>>, <<0, 90>> >> >>,
      << <<600, 1000, 550>>, << <<60, 98>>, <<0, 55>> >> >>,
      \* price_dd 0.05, 0.049, 0.35, 0.351 at the RS high
      << <<600, 1000, 950>>, << <<60, 100>>, <<0, 50>> >> >>,
      << <<600, 1000, 951>>, << <<60, 100>>, <<0, 50>> >> >>,
      << <<600, 1000, 650>>, << <<60, 100>>, <<0, 50>> >> >>,
      << <<600, 1000, 649>>, << <<60, 100>>, <<0, 50>> >> >>,
      \* RS at 0.92 and just under 0.92 of its high
      << <<600, 1000, 736>>, << <<60, 20>>, <<0, 16>> >> >>,
      << <<600, 1000, 735>>, << <<60, 20>>, <<0, 16>> >> >>,
      \* rs_dd / price_dd of 0.6 and of 0.7
      << <<600, 1000, 900>>, << <<60, 94>>, <<0, 90>> >> >>,
      << <<600, 1000, 900>>, << <<60, 93>>, <<0, 90>> >> >>,
      \* price at its high: price_dd = 0
      << <<300, 500, 500>>, << <<60, 10>>, <<0, 8>> >> >>,
      \* stage C: RS equal to its average, slope of exactly 0, and a pass
      << <<300, 560, 500>>, << <<20, 10>>, <<0, 8>> >> >>,
      << <<300, 560, 500>>, << <<25, 10>>, <<20, 8>>, <<5, 10>>, <<0, 8>> >> >>,
      << <<600, 1000, 900>>, << <<60, 98>>, <<10, 90>>, <<0, 88>> >> >> }

Scenarios ==
    LET A == { [Base(n) EXCEPT !.bq = b, !.holes = h] :
                 n \in Lens, b \in {"leader", "flat", "none", "empty"},
                 h \in HoleSets(260) }
        B == { [Base(n) EXCEPT !.base = p[1], !.peak = p[2], !.level = p[3],
                               !.bq = b] :
                 n \in LongLens, p \in Profiles, b \in {"leader", "flat", "none"} }
        C == { [Base(n) EXCEPT !.V = v[1], !.v3 = v[2], !.dip = d] :
                 n \in LongLens, v \in Volumes, d \in Dips }
        D == { [Base(n) EXCEPT !.events = ev] : n \in LongLens, ev \in EventLists }
        E == { [Base(n) EXCEPT !.base = c[1][1], !.peak = c[1][2], !.level = c[1][3],
                               !.bq = "steps", !.steps = c[2]] :
                 n \in LongLens, c \in StageCases }
    IN  {sc \in A : sc.holes \subseteq 1..sc.n} \cup B \cup C \cup D \cup E

\* ----------------------------------------------------------- scan_market
\* mutant: the Fallen Angel RS gate is left out
check_vcp_criteria_NoRs(df, qqq) ==
    /\ LengthGate(df)
    /\ PriceGate(df)
    /\ LiquidityGate(df)
    /\ PositionGate(df)
    /\ ConsolidationGate(df)
    /\ VduGate(df)
    /\ LET loop == TightnessLoop(TailN(Column(df, "Close"), VCP_TIGHT_DAYS),
                                 TailN(Column(df, "Open"), VCP_TIGHT_DAYS),
                                 1, 0, VCP_DEFAULT_TIGHTNESS)
       IN  TightnessGate(TailN(Column(df, "Close"), VCP_TIGHT_DAYS),
                         loop.valid_start_index, loop.allowed_tightness,
                         LastClose(df))
    /\ TrendGate(df)

\* check_vcp_criteria(df, qqq_close) as one call: the gates in their order,
\* the first failure returning False
check_vcp_criteria(df, qqq) ==
    /\ LengthGate(df)
    /\ PriceGate(df)
    /\ LiquidityGate(df)
    /\ PositionGate(df)
    /\ ConsolidationGate(df)
    /\ VduGate(df)
    /\ LET loop == TightnessLoop(TailN(Column(df, "Close"), VCP_TIGHT_DAYS),
                                 TailN(Column(df, "Open"), VCP_TIGHT_DAYS),
                                 1, 0, VCP_DEFAULT_TIGHTNESS)
       IN  TightnessGate(TailN(Column(df, "Close"), VCP_TIGHT_DAYS),
                         loop.valid_start_index, loop.allowed_tightness,
                         LastClose(df))
    /\ (qqq.is_none \/ compute_fallen_angel_rs_features(df, qqq).pass)
    /\ TrendGate(df)

\* the longest ticker list the listing serves, and how many scans one
\* behaviour holds
MaxTickers == 3
MaxScans == 2
\* cfg.YF_BATCH_SIZE, scaled to the lists above
YF_BATCH_SIZE == 2

\* target_date_str values: a "%y%m%d" date, None, and a string strptime rejects
NoDate == "None"
TargetDates == {"250102", NoDate, "bad"}
\* datetime.now() of the scans
Today == <<2025, 1, 3>>
\* datetime.strptime(s, "%y%m%d") raises ValueError on any other string
ValidDate(s) == s \in {"250102", "250103"}
Strptime(s) == IF s = "250102" THEN <<2025, 1, 2>> ELSE <<2025, 1, 3>>
\* target_date.strftime('%Y-%m-%d')
Strftime(d) ==
    IF d = <<2025, 1, 2>> THEN "2025-01-02"
    ELSE IF d = <<2025, 1, 3>> THEN "2025-01-03"
    ELSE "0000-00-00"

\* the symbols the NASDAQ listing can yield after filtering, and the list
\* get_nasdaq_stock_list falls back to when the listing cannot be read
Listed == <<"AMAT", "BIDU", "CSCO", "DDOG", "EBAY">>
FallbackList == <<"AAPL", "MSFT", "AMZN", "NVDA", "TSLA", "META", "AMD",
                  "NFLX", "GOOGL", "AVGO">>
\* listing: [ok, n], the listing read (yielding n symbols) or not
get_nasdaq_stock_list(listing) ==
    IF ~listing.ok THEN FallbackList ELSE SubSeq(Listed, 1, listing.n)

\* data[symbol] of a batch download, by kind: whether the symbol has a column
\* group, which columns it has, its bars, and the days between its last bar
\* and the target date
AllColumns == {"Open", "High", "Low", "Close", "Volume"}
Frame(kind) ==
    [present  |-> kind # "absent",
     columns  |-> IF kind = "malformed" THEN AllColumns \ {"Volume"} ELSE AllColumns,
     bars     |-> IF kind \in {"absent", "empty"} THEN << >>
                  ELSE IF kind = "short" THEN MakeSeries(Base(MIN_LEN - 1))
                  ELSE IF kind = "cheap"
                  THEN MakeSeries([Base(MIN_LEN) EXCEPT !.base = 10, !.peak = 10,
                                                        !.level = 10])
                  ELSE IF kind = "flat"
                  THEN MakeSeries([Base(MIN_LEN) EXCEPT !.base = 500, !.peak = 500,
                                                        !.level = 500])
                  ELSE MakeSeries(Base(MIN_LEN)),
     last_gap |-> IF kind = "stale" THEN 3 ELSE 0]
FrameKindList ==
    <<"absent", "empty", "stale", "malformed", "short", "cheap", "flat", "leader">>
FrameKinds == Range(FrameKindList)

\* qqq_close of a scan whose benchmark download succeeded
ScanBench == MakeBench(Base(MIN_LEN))

\* the row scan_market appends for a passing symbol
Row(symbol, feat) ==
    [k \in {"Symbol", "leader_peak_excess", "rs_near_high%", "rs_dd_vs_price_dd",
            "RS_ma20_slope"} |->
        IF k = "Symbol" THEN symbol
        ELSE IF k = "leader_peak_excess" THEN feat.leader_peak_excess
        ELSE IF k = "rs_near_high%" THEN feat.rs_near_high_pct
        ELSE IF k = "rs_dd_vs_price_dd" THEN feat.rs_dd_vs_price_dd
        ELSE feat.rs_ma20_slope]

\* lines 491-511, the body of "for symbol in batch" on one frame:
\* [outcome, rs_pass, features]; "skipped" is one of the three "continue"s,
\* "raised" an exception caught on line 511 (here the KeyError of
\* df['Volume'] on line 228), "passed" a frame whose row is appended, with
\* the rs_pass and feat of line 503
SymbolOutcome(frame, qqq) ==
    IF ~frame.present \/ Len(frame.bars) = 0 \/ Abs(frame.last_gap) > 1
    THEN [outcome |-> "skipped", rs_pass |-> FALSE, features |-> NoFeatures]
    ELSE IF Len(frame.bars) >= 260 /\ ~(AllColumns \subseteq frame.columns)
    THEN [outcome |-> "raised", rs_pass |-> FALSE, features |-> NoFeatures]
    ELSE IF check_vcp_criteria(frame.bars, qqq)
    THEN [outcome |-> "passed",
          rs_pass |-> compute_fallen_angel_rs_features(frame.bars, qqq).pass,
          features |-> compute_fallen_angel_rs_features(frame.bars, qqq).features]
    ELSE [outcome |-> "failed", rs_pass |-> FALSE, features |-> NoFeatures]

\* SymbolOutcome of every kind of frame against the scan's benchmark, in the
\* order of FrameKindList
OutcomeList ==
    SelectSeq([x \in 1..Len(FrameKindList) |->
                  SymbolOutcome(Frame(FrameKindList[x]), ScanBench)],
              LAMBDA r : TRUE)
\* the entry of kind in such a list
OutcomeOf(list, kind) ==
    list[CHOOSE x \in 1..Len(FrameKindList) : FrameKindList[x] = kind]

\* the batch starts "range(0, len(tickers), batch_size)" of a list of n
BatchStarts(n) == {b \in 0..(n - 1) : b % YF_BATCH_SIZE = 0}
\* tickers[i:i+batch_size]
Batch(tickers, b) == SubSeq(tickers, b + 1, Min2(b + YF_BATCH_SIZE, Len(tickers)))

\* what the network serves one scan: the benchmark download ("ok", "empty",
\* "raises"), the listing, each batch download by its start, and the kind
\* of frame served for the ticker at each position (absent where unlisted)
Net(qqq, listing, download, data) ==
    [qqq |-> qqq, listing |-> listing, download |-> download, data |-> data]
Lists(n) == [ok |-> TRUE, n |-> n]
AllOk(n) == [b \in BatchStarts(n) |-> "ok"]
AllOf(n, kind) == [k \in 1..n |-> kind]
KindAt(w, pos) == IF pos \in DOMAIN w.data THEN w.data[pos] ELSE "absent"

\* the <<target_date_str, net>> pairs a scan is started on
ScanInputs ==
    LET W1 == UNION { { Net("ok", Lists(n), AllOk(n), d) :
                          d \in [1..n -> {"absent", "malformed", "cheap", "leader"}] } :
                      n \in 1..MaxTickers }
        W2 == { Net("ok", Lists(MaxTickers), dl, AllOf(MaxTickers, "leader")) :
                  dl \in [BatchStarts(MaxTickers) -> {"ok", "empty", "raises"}] }
        W3 == { Net("ok", Lists(MaxTickers), AllOk(MaxTickers),
                    [AllOf(MaxTickers, "leader") EXCEPT ![k] = kind]) :
                  k \in 1..MaxTickers, kind \in FrameKinds }
        W4 == { Net(q, Lists(MaxTickers), AllOk(MaxTickers), AllOf(MaxTickers, kind)) :
                  q \in {"ok", "empty", "raises"}, kind \in {"leader", "cheap"} }
        W5 == { Net("ok", [ok |-> FALSE, n |-> 0], AllOk(Len(FallbackList)),
                    AllOf(1, "leader")),
                Net("ok", Lists(0), AllOk(0), AllOf(0, "leader")) }
    IN  ({"250102"} \X (W1 \cup W2 \cup W3 \cup W5)) \cup (TargetDates \X W4)

\* ----------------------------------------------------------------- state
VARIABLES
    df,                 \* the bar series under evaluation
    qqq_close,          \* the benchmark close series (or None)
    pc,                 \* where the evaluation stands
    diag,               \* what diagnose_single_stock returned
    fa,                 \* what compute_fallen_angel_rs_features returned
    gates,              \* check_vcp_criteria: <<gate, passed>> of each gate
                        \* evaluated so far, in order
    recent_closes,      \* check_vcp_criteria locals
    recent_opens,
    i,
    valid_start_index,
    allowed_tightness,
    ret                 \* what check_vcp_criteria returned (at pc = "done")

eval_vars == <<df, qqq_close, pc, diag, fa, gates, recent_closes, recent_opens, i,
               valid_start_index, allowed_tightness, ret>>

\* scan_market
VARIABLES
    target_date_str,    \* the argument of scan_market
    net,                \* what the network serves this scan
    spc,                \* where the scan stands
    formatted_date,     \* scan_market locals
    tickers,
    batch_start,        \* "i" of "for i in range(0, len(tickers), batch_size)"
    sym_k,              \* position of "symbol" in the batch
    rows,
    tried,              \* the symbols whose loop body has run
    scan_ret,           \* what scan_market returned (at spc = "returned")
    scans,              \* scans started so far
    outcomes,           \* OutcomeList, worked out once when scanning starts
    seen                \* <<situation, returned value>> of the finished scans
                        \* that failed to fetch or passed no symbol

scan_vars == <<target_date_str, net, spc, formatted_date, tickers, batch_start,
               sym_k, rows, tried, scan_ret, scans, outcomes, seen>>

\* no scan under way
ScanIdle ==
    /\ target_date_str = NoDate
    /\ net = Net("ok", Lists(0), AllOk(0), AllOf(0, "leader"))
    /\ spc = "idle"
    /\ formatted_date = ""
    /\ tickers = << >>
    /\ batch_start = 0
    /\ sym_k = 0
    /\ rows = << >>
    /\ tried = {}
    /\ scan_ret = << << >>, "" >>
    /\ scans = 0
    /\ outcomes = << >>
    /\ seen = {}

\* yf_download_with_retry
VARIABLES
    YF_MAX_RETRIES,     \* cfg.YF_MAX_RETRIES
    YF_BACKOFF_BASE_SEC, \* cfg.YF_BACKOFF_BASE_SEC
    rpc,                \* where the call stands
    attempt,
    last_err,
    calls,              \* what each yf.download call did, in order
    slept,              \* the argument of each time.sleep call, in order
    retry_ret           \* what yf_download_with_retry returned or raised

retry_vars == <<YF_MAX_RETRIES, YF_BACKOFF_BASE_SEC, rpc, attempt, last_err, calls,
                slept, retry_ret>>

None == [is_none |-> TRUE]

\* no download call under way
RetryIdle ==
    /\ YF_MAX_RETRIES = 0
    /\ YF_BACKOFF_BASE_SEC = 0
    /\ rpc = "idle"
    /\ attempt = 0
    /\ last_err = None
    /\ calls = << >>
    /\ slept = << >>
    /\ retry_ret = None

vars == <<eval_vars, scan_vars, retry_vars>>

inputs == <<df, qqq_close>>
locals == <<recent_closes, recent_opens, i, valid_start_index, allowed_tightness>>

NotCalled == [called |-> FALSE]

Init ==
    /\ \E sc \in Scenarios :
          /\ df = MakeSeries(sc)
          /\ qqq_close = MakeBench(sc)
    /\ pc = "diagnose"
    /\ diag = NotCalled
    /\ fa = NotCalled
    /\ gates = << >>
    /\ recent_closes = << >>
    /\ recent_opens = << >>
    /\ i = 0
    /\ valid_start_index = 0
    /\ allowed_tightness = 0
    /\ ret = FALSE
    /\ ScanIdle
    /\ RetryIdle

\* one call of diagnose_single_stock on the inputs
Diagnose ==
    /\ pc = "diagnose"
    /\ diag' = [called |-> TRUE] @@ diagnose_single_stock(df, qqq_close)
    /\ pc' = "fallen_angel"
    /\ UNCHANGED <<scan_vars, retry_vars, inputs, fa, gates, locals, ret>>

\* one call of compute_fallen_angel_rs_features on the inputs
FallenAngel ==
    /\ pc = "fallen_angel"
    /\ fa' = [called |-> TRUE] @@ compute_fallen_angel_rs_features(df, qqq_close)
    /\ pc' = "length"
    /\ UNCHANGED <<scan_vars, retry_vars, inputs, diag, gates, locals, ret>>

\* a gate of check_vcp_criteria: a failure returns False, a pass moves on
Gate(name, passed, next) ==
    /\ pc = name
    /\ gates' = Append(gates, <<name, passed>>)
    /\ IF passed THEN pc' = next /\ ret' = ret
                 ELSE pc' = "done" /\ ret' = FALSE
    /\ UNCHANGED <<scan_vars, retry_vars, inputs, diag, fa>>

GateLength == Gate("length", LengthGate(df), "price") /\ UNCHANGED locals
GatePrice == Gate("price", PriceGate(df), "liquidity") /\ UNCHANGED locals
GateLiquidity == Gate("liquidity", LiquidityGate(df), "position") /\ UNCHANGED locals
GatePosition == Gate("position", PositionGate(df), "consolidation") /\ UNCHANGED locals
GateConsolidation == Gate("consolidation", ConsolidationGate(df), "vdu") /\ UNCHANGED locals

\* mutant: a failed volume dry-up does not end the evaluation
GateVdu_NoReturn ==
    /\ pc = "vdu"
    /\ gates' = Append(gates, <<"vdu", VduGate(df)>>)
    /\ pc' = "tight_init"
    /\ UNCHANGED <<scan_vars, retry_vars, inputs, diag, fa, locals, ret>>

GateVdu == Gate("vdu", VduGate(df), "tight_init") /\ UNCHANGED locals

\* lines 263-269: the window lists and the loop's starting values
TightInit ==
    /\ pc = "tight_init"
    /\ recent_closes' = TailN(Column(df, "Close"), VCP_TIGHT_DAYS)
    /\ recent_opens' = TailN(Column(df, "Open"), VCP_TIGHT_DAYS)
    /\ valid_start_index' = 0
    /\ allowed_tightness' = VCP_DEFAULT_TIGHTNESS
    /\ i' = 1
    /\ pc' = IF 1 < Len(recent_closes') THEN "tight_loop" ELSE "tightness"
    /\ UNCHANGED <<scan_vars, retry_vars, inputs, diag, fa, gates, ret>>

\* mutant: a later gap only ever widens the tolerance (largest gap wins)
TightIter_LargestWins ==
    /\ pc = "tight_loop"
    /\ LET prev_c == recent_closes[i]
           curr_o == recent_opens[i + 1]
           curr_c == recent_closes[i + 1]
       IN  IF GapResets(prev_c, curr_o)
           THEN /\ valid_start_index' = i
                /\ allowed_tightness' =
                      Max2(allowed_tightness, ResetTightness(prev_c, curr_o, curr_c))
           ELSE UNCHANGED <<valid_start_index, allowed_tightness>>
    /\ i' = i + 1
    /\ pc' = IF i + 1 < Len(recent_closes) THEN "tight_loop" ELSE "tightness"
    /\ UNCHANGED <<scan_vars, retry_vars, inputs, diag, fa, gates, recent_closes, recent_opens, ret>>

\* one iteration of "for i in range(1, len(recent_closes))"
TightIter ==
    /\ pc = "tight_loop"
    /\ LET prev_c == recent_closes[i]
           curr_o == recent_opens[i + 1]
           curr_c == recent_closes[i + 1]
       IN  IF GapResets(prev_c, curr_o)
           THEN /\ valid_start_index' = i
                /\ allowed_tightness' = ResetTightness(prev_c, curr_o, curr_c)
           ELSE UNCHANGED <<valid_start_index, allowed_tightness>>
    /\ i' = i + 1
    /\ pc' = IF i + 1 < Len(recent_closes) THEN "tight_loop" ELSE "tightness"
    /\ UNCHANGED <<scan_vars, retry_vars, inputs, diag, fa, gates, recent_closes, recent_opens, ret>>

\* lines 291-303: the range of the closes from valid_start_index on
GateTightness ==
    /\ Gate("tightness",
            TightnessGate(recent_closes, valid_start_index, allowed_tightness,
                          LastClose(df)),
            "rs")
    /\ UNCHANGED locals

\* lines 305-309: the Fallen Angel RS gate, skipped without a benchmark
GateRs ==
    /\ pc = "rs"
    /\ IF qqq_close.is_none
       THEN pc' = "trend" /\ UNCHANGED <<gates, ret>>
       ELSE LET rs_pass == compute_fallen_angel_rs_features(df, qqq_close).pass
            IN  /\ gates' = Append(gates, <<"rs", rs_pass>>)
                /\ IF rs_pass THEN pc' = "trend" /\ ret' = ret
                              ELSE pc' = "done" /\ ret' = FALSE
    /\ UNCHANGED <<scan_vars, retry_vars, inputs, diag, fa, locals>>

\* lines 311-321: the trend filter, then "return True"
GateTrend ==
    /\ pc = "trend"
    /\ gates' = Append(gates, <<"trend", TrendGate(df)>>)
    /\ pc' = "done"
    /\ ret' = TrendGate(df)
    /\ UNCHANGED <<scan_vars, retry_vars, inputs, diag, fa, locals>>

Next ==
    \/ Diagnose
    \/ FallenAngel
    \/ GateLength
    \/ GatePrice
    \/ GateLiquidity
    \/ GatePosition
    \/ GateConsolidation
    \/ GateVdu
    \/ TightInit
    \/ TightIter
    \/ GateTightness
    \/ GateRs
    \/ GateTrend

Spec == Init /\ [][Next]_vars

\* ------------------------------------------------- scan_market, by steps
\* no gate evaluation under way
EvalIdle ==
    /\ df = << >>
    /\ qqq_close = [is_none |-> TRUE, val |-> << >>]
    /\ pc = "idle"
    /\ diag = NotCalled
    /\ fa = NotCalled
    /\ gates = << >>
    /\ recent_closes = << >>
    /\ recent_opens = << >>
    /\ i = 0
    /\ valid_start_index = 0
    /\ allowed_tightness = 0
    /\ ret = FALSE

ScanInit ==
    /\ EvalIdle
    /\ RetryIdle
    /\ outcomes = OutcomeList
    /\ \E inp \in ScanInputs :
          /\ target_date_str = inp[1]
          /\ net = inp[2]
    /\ spc = "start"
    /\ formatted_date = ""
    /\ tickers = << >>
    /\ batch_start = 0
    /\ sym_k = 0
    /\ rows = << >>
    /\ tried = {}
    /\ scan_ret = << << >>, "" >>
    /\ scans = 1
    /\ seen = {}

\* "return value": situation is "fetch_failed" (no benchmark series),
\* "zero_passed" (line 518 with tickers and no row) or "other"
Returns(value, situation) ==
    /\ scan_ret' = value
    /\ spc' = "returned"
    /\ seen' = IF situation = "other" THEN seen
               ELSE seen \cup {<<situation, value>>}

\* the loop moves on from the batch starting at b
NextBatch(b) ==
    /\ batch_start' = b + YF_BATCH_SIZE
    /\ spc' = IF b + YF_BATCH_SIZE < Len(tickers) THEN "download" ELSE "return"

\* lines 458-482: the target date, the benchmark download, the ticker list;
\* an exception (strptime's, the download's) reaches line 520
ScanStart ==
    /\ spc = "start"
    /\ IF target_date_str # NoDate /\ ~ValidDate(target_date_str)
       THEN /\ Returns(<< << >>, target_date_str >>, "other")
            /\ UNCHANGED <<formatted_date, tickers>>
       ELSE /\ formatted_date' = Strftime(IF target_date_str = NoDate THEN Today
                                          ELSE Strptime(target_date_str))
            /\ IF net.qqq = "raises"
               THEN /\ Returns(<< << >>, target_date_str >>, "fetch_failed")
                    /\ UNCHANGED tickers
               ELSE IF net.qqq = "empty"
               THEN /\ Returns(<< << >>, formatted_date' >>, "fetch_failed")
                    /\ UNCHANGED tickers
               ELSE /\ tickers' = get_nasdaq_stock_list(net.listing)
                    /\ spc' = IF Len(tickers') > 0 THEN "download" ELSE "return"
                    /\ UNCHANGED <<scan_ret, seen>>
    /\ rows' = << >>
    /\ batch_start' = 0
    /\ UNCHANGED <<eval_vars, retry_vars, target_date_str, net, sym_k, tried, scans, outcomes>>

\* lines 484-488: the batch download; it raising (line 514) or coming back
\* empty skips the batch
BatchDownload ==
    /\ spc = "download"
    /\ IF net.download[batch_start] = "ok"
       THEN /\ spc' = "symbol"
            /\ sym_k' = 1
            /\ UNCHANGED batch_start
       ELSE /\ NextBatch(batch_start)
            /\ UNCHANGED sym_k
    /\ UNCHANGED <<eval_vars, retry_vars, target_date_str, net, formatted_date, tickers, rows,
                   tried, scan_ret, scans, outcomes, seen>>

\* mutant: an exception of one symbol reaches the batch's handler on line 514
EvalSymbol_AbortsBatch ==
    /\ spc = "symbol"
    /\ LET pos    == batch_start + sym_k
           symbol == tickers[pos]
           out    == OutcomeOf(outcomes, KindAt(net, pos))
       IN  /\ tried' = tried \cup {symbol}
           /\ rows' = IF out.outcome = "passed"
                      THEN Append(rows, Row(symbol, out.features)) ELSE rows
           /\ IF out.outcome = "raised"
              THEN NextBatch(batch_start) /\ UNCHANGED sym_k
              ELSE IF sym_k < Len(Batch(tickers, batch_start))
              THEN sym_k' = sym_k + 1 /\ UNCHANGED <<spc, batch_start>>
              ELSE spc' = "sleep" /\ UNCHANGED <<sym_k, batch_start>>
    /\ UNCHANGED <<eval_vars, retry_vars, target_date_str, net, formatted_date, tickers,
                   scan_ret, scans, outcomes, seen>>

\* lines 490-511: the loop body on the next symbol of the batch
EvalSymbol ==
    /\ spc = "symbol"
    /\ LET pos    == batch_start + sym_k
           symbol == tickers[pos]
           out    == OutcomeOf(outcomes, KindAt(net, pos))
       IN  /\ tried' = tried \cup {symbol}
           /\ rows' = IF out.outcome = "passed"
                      THEN Append(rows, Row(symbol, out.features)) ELSE rows
           /\ IF sym_k < Len(Batch(tickers, batch_start))
              THEN sym_k' = sym_k + 1 /\ UNCHANGED <<spc, batch_start>>
              ELSE spc' = "sleep" /\ UNCHANGED <<sym_k, batch_start>>
    /\ UNCHANGED <<eval_vars, retry_vars, target_date_str, net, formatted_date, tickers,
                   scan_ret, scans, outcomes, seen>>

\* line 513: the pause between batches
BatchSleep ==
    /\ spc = "sleep"
    /\ NextBatch(batch_start)
    /\ UNCHANGED <<eval_vars, retry_vars, target_date_str, net, formatted_date, tickers, sym_k,
                   rows, tried, scan_ret, scans, outcomes, seen>>

\* line 518: "return rows, formatted_date"
ScanReturn ==
    /\ spc = "return"
    /\ Returns(<<rows, formatted_date>>,
               IF Len(rows) = 0 /\ Len(tickers) > 0 THEN "zero_passed" ELSE "other")
    /\ UNCHANGED <<eval_vars, retry_vars, target_date_str, net, formatted_date, tickers,
                   batch_start, sym_k, rows, tried, scans, outcomes>>

\* the caller starts another scan
ScanAgain ==
    /\ spc = "returned"
    /\ scans < MaxScans
    /\ \E inp \in ScanInputs :
          /\ target_date_str' = inp[1]
          /\ net' = inp[2]
    /\ spc' = "start"
    /\ formatted_date' = ""
    /\ tickers' = << >>
    /\ batch_start' = 0
    /\ sym_k' = 0
    /\ rows' = << >>
    /\ tried' = {}
    /\ scans' = scans + 1
    /\ UNCHANGED <<eval_vars, retry_vars, scan_ret, outcomes, seen>>

ScanNext ==
    \/ ScanStart
    \/ BatchDownload
    \/ EvalSymbol
    \/ BatchSleep
    \/ ScanReturn
    \/ ScanAgain

ScanSpec == ScanInit /\ [][ScanNext]_vars

\* ---------------------------------------- yf_download_with_retry, by steps
MaxRetries == 3
MaxBase == 2

\* what one yf.download call may do: return a frame, or raise an exception
DownloadOutcomes ==
    {[raised |-> FALSE, value |-> "frame_a"], [raised |-> FALSE, value |-> "frame_b"],
     [raised |-> TRUE, value |-> "error_a"], [raised |-> TRUE, value |-> "error_b"]}

\* pd.DataFrame()
EmptyFrame == "frame_empty"

Returned(value) == [is_none |-> FALSE, raised |-> FALSE, value |-> value]
Raised(err) == [is_none |-> FALSE, raised |-> TRUE, value |-> err]

\* "wait = cfg.YF_BACKOFF_BASE_SEC * (2 ** (attempt - 1))"
Wait(base, n) == base * 2 ^ (n - 1)

\* the call starts: "last_err = None", and the loop variable at its first value
RetryInit ==
    /\ EvalIdle
    /\ ScanIdle
    /\ YF_MAX_RETRIES \in 0..MaxRetries
    /\ YF_BACKOFF_BASE_SEC \in 0..MaxBase
    /\ rpc = "loop"
    /\ attempt = 1
    /\ last_err = None
    /\ calls = << >>
    /\ slept = << >>
    /\ retry_ret = None

\* one pass of the loop as far as the download: it returns what yf.download
\* returned, or enters the handler with "last_err = e"
Download ==
    /\ rpc = "loop"
    /\ attempt <= YF_MAX_RETRIES
    /\ \E o \in DownloadOutcomes :
          /\ calls' = Append(calls, o)
          /\ IF o.raised
             THEN /\ last_err' = Raised(o.value)
                  /\ rpc' = "except"
                  /\ UNCHANGED retry_ret
             ELSE /\ retry_ret' = Returned(o.value)
                  /\ rpc' = "done"
                  /\ UNCHANGED last_err
    /\ UNCHANGED <<eval_vars, scan_vars, YF_MAX_RETRIES, YF_BACKOFF_BASE_SEC, attempt, slept>>

\* the handler skips the sleep after the last attempt
Backoff_NoLastSleep ==
    /\ rpc = "except"
    /\ slept' = IF attempt < YF_MAX_RETRIES
                THEN Append(slept, Wait(YF_BACKOFF_BASE_SEC, attempt)) ELSE slept
    /\ attempt' = attempt + 1
    /\ rpc' = "loop"
    /\ UNCHANGED <<eval_vars, scan_vars, YF_MAX_RETRIES, YF_BACKOFF_BASE_SEC, last_err, calls,
                   retry_ret>>

\* the rest of the handler: the wait is worked out and slept (an exception
\* of time.sleep is swallowed), and the loop moves to the next attempt
Backoff ==
    /\ rpc = "except"
    /\ slept' = Append(slept, Wait(YF_BACKOFF_BASE_SEC, attempt))
    /\ attempt' = attempt + 1
    /\ rpc' = "loop"
    /\ UNCHANGED <<eval_vars, scan_vars, YF_MAX_RETRIES, YF_BACKOFF_BASE_SEC, last_err, calls,
                   retry_ret>>

\* after the loop: "if last_err: raise last_err", else an empty frame
Exhausted ==
    /\ rpc = "loop"
    /\ attempt > YF_MAX_RETRIES
    /\ retry_ret' = IF last_err # None THEN last_err ELSE Returned(EmptyFrame)
    /\ rpc' = "done"
    /\ UNCHANGED <<eval_vars, scan_vars, YF_MAX_RETRIES, YF_BACKOFF_BASE_SEC, attempt, last_err,
                   calls, slept>>

RetryNext ==
    \/ Download
    \/ Backoff
    \/ Exhausted

\* the call runs on as long as yf.download and time.sleep come back
RetrySpec == RetryInit /\ [][RetryNext]_vars /\ WF_vars(RetryNext)

\* ------------------------------------------------------------ properties
\* names of the gates evaluated so far
GateNames == [j \in 1..Len(gates) |-> gates[j][1]]
\* gate g has been evaluated / has been evaluated and passed
Evaluated(g) == \E j \in 1..Len(gates) : gates[j][1] = g
Passed(g) == \E j \in 1..Len(gates) : gates[j] = <<g, TRUE>>
IsPrefix(s, t) == Len(s) <= Len(t) /\ \A j \in 1..Len(s) : s[j] = t[j]

\* C1: a bar series of fewer than 260 rows (the empty one included) makes
\* check_vcp_criteria return False at the length gate, before any bar is
\* read, makes diagnose_single_stock return is_pass = False without a gate
\* report, and makes compute_fallen_angel_rs_features return False with all
\* four features NaN.
C1_ShortSeriesFails ==
    Len(df) < 260 =>
        /\ diag.called => ~diag.is_pass /\ diag.report = << >>
        /\ fa.called => ~fa.pass /\ \A f \in DOMAIN fa.features : fa.features[f] = NaN
        /\ pc = "done" => ~ret /\ GateNames = <<"length">>

\* a 259-bar series with a benchmark, after all three functions returned
C1_Witness ==
    /\ Len(df) = 259
    /\ ~qqq_close.is_none /\ DOMAIN qqq_close.val # {}
    /\ diag.called /\ fa.called /\ pc = "done"

\* the tightness loop has started / has run to its end
LoopStarted == i >= 1
LoopDone == LoopStarted /\ i >= Len(recent_closes)
\* window days (Python index j) that the loop has examined so far
Examined == 1..(i - 1)
\* day j opens more than VCP_GAP_THRESHOLD (0.04) above the previous close
Qualifies(j) ==
    (recent_opens[j + 1] - recent_closes[j]) * 1000 > 40 * recent_closes[j]
\* the larger of day j's open gap and day gain, in dollars
Magnitude(j) ==
    Max2(recent_opens[j + 1] - recent_closes[j],
         recent_closes[j + 1] - recent_closes[j])
\* the tolerance the code computes from day j alone, in thousandths
Tolerance(j) ==
    ResetTightness(recent_closes[j], recent_opens[j + 1], recent_closes[j + 1])

\* C2: once the tightness loop has set it, allowed_tightness never is below
\* VCP_DEFAULT_TIGHTNESS (0.035), whatever the window and however many
\* iterations have run.
C2_NeverBelowDefault == LoopStarted => allowed_tightness >= 35

\* the loop has reset the window on a gap whose day closed lower than it opened
C2_Witness ==
    /\ pc = "tight_loop"
    /\ valid_start_index > 0
    /\ recent_closes[valid_start_index + 1] < recent_opens[valid_start_index + 1]

\* C3: when several days of the window gap up by more than
\* VCP_GAP_THRESHOLD, the loop ends with valid_start_index on the last of
\* them and with the tolerance of that day alone, also when an earlier such
\* day had the larger tolerance.
C3_LastGapWins ==
    LoopDone =>
        LET Q == {j \in 1..(Len(recent_closes) - 1) : Qualifies(j)}
        IN  Q # {} =>
              LET last == CHOOSE j \in Q : \A x \in Q : x <= j
              IN  /\ valid_start_index = last
                  /\ allowed_tightness = Tolerance(last)

\* two qualifying days, the earlier one with the larger tolerance
C3_Witness ==
    /\ LoopDone
    /\ \E a, b \in 1..(Len(recent_closes) - 1) :
          /\ a < b /\ Qualifies(a) /\ Qualifies(b)
          /\ valid_start_index = b
          /\ Tolerance(a) > Tolerance(b)

\* C4: the window is reset by exactly the days whose open gap is strictly
\* above VCP_GAP_THRESHOLD: valid_start_index is the last such day examined,
\* and while no examined day exceeds the threshold (a gap equal to it
\* included) allowed_tightness is the default and valid_start_index is 0.
C4_StrictGapReset ==
    LoopStarted =>
        LET Q == {j \in Examined : Qualifies(j)}
        IN  /\ Q = {} => valid_start_index = 0 /\ allowed_tightness = 35
            /\ Q # {} => valid_start_index \in Q /\ \A x \in Q : x <= valid_start_index

\* the loop has ended on a window with a gap of exactly 4% and no reset
C4_Witness ==
    /\ LoopDone
    /\ valid_start_index = 0 /\ allowed_tightness = 35
    /\ \E j \in 1..(Len(recent_closes) - 1) :
          (recent_opens[j + 1] - recent_closes[j]) * 1000 = 40 * recent_closes[j]

\* C5: after a reset, allowed_tightness is a whole number of percentage
\* points, at least max(gap, day gain) of the reset day and less than that
\* maximum plus 0.01; a +5% gap with a +9.4% day gain gives 0.10.
C5_CeilToPercent ==
    LoopStarted /\ valid_start_index > 0 =>
        LET prev_c == recent_closes[valid_start_index]
            m      == Magnitude(valid_start_index)
        IN  /\ allowed_tightness % 10 = 0
            /\ allowed_tightness * prev_c >= m * 1000
            /\ allowed_tightness * prev_c < m * 1000 + 10 * prev_c
            /\ (/\ prev_c = 500
                /\ recent_opens[valid_start_index + 1] = 525
                /\ recent_closes[valid_start_index + 1] = 547)
               => allowed_tightness = 100

\* C6: the tightness gate passes iff fewer than two closes remain from
\* valid_start_index on, or their range over the last close is at most
\* allowed_tightness; the closes before valid_start_index play no part.
C6_TightnessGate ==
    Evaluated("tightness") =>
        LET n    == Len(recent_closes)
            kept == {recent_closes[j] : j \in (valid_start_index + 1)..n}
            hi   == CHOOSE x \in kept : \A y \in kept : y <= x
            lo   == CHOOSE x \in kept : \A y \in kept : x <= y
        IN  Passed("tightness") <=>
              \/ n - valid_start_index < 2
              \/ (hi - lo) * 1000 <= allowed_tightness * recent_closes[n]

\* the gate passed after a reset although the closes before the reset lie
\* further from the later ones than the tolerance allows
C6_Witness ==
    /\ Passed("tightness")
    /\ valid_start_index > 0
    /\ Len(recent_closes) - valid_start_index >= 2
    /\ (SeqMax(recent_closes) - SeqMin(recent_closes)) * 1000
          > allowed_tightness * recent_closes[Len(recent_closes)]

\* the order in which check_vcp_criteria evaluates its gates: the RS gate
\* is part of it only when a benchmark was handed in
GateOrder ==
    <<"length", "price", "liquidity", "position", "consolidation", "vdu",
      "tightness">>
    \o (IF qqq_close.is_none THEN << >> ELSE <<"rs">>) \o <<"trend">>

\* C7 (as stated): the gates run in the order length, price/liquidity,
\* position, consolidation, volume dry-up, trend, tightness, and the RS gate
\* is evaluated only after the trend gate has passed.
C7_TrendBeforeTightness ==
    /\ IsPrefix(GateNames,
                <<"length", "price", "liquidity", "position", "consolidation",
                  "vdu", "trend", "tightness", "rs">>)
    /\ Evaluated("rs") => Passed("trend")

\* C7: the gates run in the order length, price, liquidity, position,
\* consolidation, volume dry-up, tightness, RS (with a benchmark only),
\* trend; a gate is evaluated only after every gate before it has passed,
\* the first failing gate ends the evaluation with False, and True is
\* returned only after all of them, the trend gate last, have passed.
C7_GateOrder ==
    /\ IsPrefix(GateNames, GateOrder)
    /\ \A j \in 1..(Len(gates) - 1) : gates[j][2]
    /\ (gates # << >> /\ ~gates[Len(gates)][2]) => pc = "done" /\ ~ret
    /\ (pc = "done" /\ ret) => GateNames = GateOrder

\* the RS gate was evaluated and passed, and the trend gate then failed
C7_Witness ==
    /\ pc = "done"
    /\ Passed("tightness") /\ Passed("rs")
    /\ gates[Len(gates)] = <<"trend", FALSE>>

\* C8 (as stated): the 52-week position gate passes iff the last close is at
\* least the minimum low of the last 250 bars times (1 + LOW_52W_MULTIPLIER),
\* with the multiplier 0.25; equality passes.
C8_PositionGate ==
    Evaluated("position") =>
        (Passed("position") <=>
            LastClose(df) * 1000 >= Low52w(df) * (1000 + LOW_52W_MULTIPLIER))

\* C9: the volume dry-up gate passes iff the 3-day average volume is
\* strictly below VDU_MAX_RATIO times the 20-day average (equality fails), in
\* check_vcp_criteria and in diagnose_single_stock alike; a volume that is
\* constant over the last 20 bars fails the gate and with it the evaluation.
C9_VduStrict ==
    LET dry   == VolSum(df, 3) * 20 * 1000 < VolSum(df, 20) * VDU_MAX_RATIO * 3
        const == \A j \in (Len(df) - 19)..Len(df) : df[j].Volume = df[Len(df)].Volume
    IN  /\ Evaluated("vdu") =>
              /\ Passed("vdu") <=> dry
              /\ ~Passed("vdu") => pc = "done" /\ ~ret
              /\ const => ~Passed("vdu")
        /\ (diag.called /\ Len(df) >= 260) =>
              /\ diag.report[5] = <<"vdu", dry>>
              /\ ~dry => ~diag.is_pass

\* both functions met a 3-day average exactly at VDU_MAX_RATIO times the
\* 20-day average
C9_Witness ==
    /\ diag.called /\ Evaluated("vdu") /\ ~Passed("vdu")
    /\ VolSum(df, 3) * 20 * 1000 = VolSum(df, 20) * VDU_MAX_RATIO * 3

\* stock date j has a benchmark value
Common(j) == j \in DOMAIN qqq_close.val
\* the stock dates on which the benchmark has a value
CommonDates == {j \in 1..Len(df) : Common(j)}
\* the first common date (Len(df) + 1 when there is none)
FirstCommon ==
    CHOOSE d \in 1..(Len(df) + 1) :
        /\ d <= Len(df) => Common(d)
        /\ \A e \in 1..(d - 1) : ~Common(e)
\* the stock dates on or after the first common date
FilledDates == FirstCommon..Len(df)
\* the last common date on or before stock date j
LastCommon(j) ==
    IF Common(j) THEN j
    ELSE CHOOSE d \in FirstCommon..(j - 1) :
            Common(d) /\ \A e \in (d + 1)..(j - 1) : ~Common(e)
\* the rows <<stock close, benchmark close of the last common date>> of the
\* dates in FilledDates, in date order
FilledRows ==
    SelectSeq([x \in 1..(Len(df) - FirstCommon + 1) |->
                  <<df[FirstCommon + x - 1].Close,
                    qqq_close.val[LastCommon(FirstCommon + x - 1)]>>],
              LAMBDA r : TRUE)
\* compute_fallen_angel_rs_features has just returned on a non-empty
\* series and a non-empty benchmark
FaReturned ==
    /\ pc = "length" /\ fa.called
    /\ Len(df) > 0 /\ ~qqq_close.is_none /\ DOMAIN qqq_close.val # {}

\* C10 (as stated): a stock date without a benchmark value is dropped, and
\* with fewer than 260 common dates the gate fails with all features NaN.
C10_CommonDatesOnly ==
    (FaReturned /\ Cardinality(CommonDates) < 260) =>
        ~fa.pass /\ fa.features = NoFeatures

\* C10: a stock date without a benchmark value takes the benchmark close of
\* the latest earlier stock date that has one, and is dropped only when
\* there is no such date; the gate fails with all four features NaN when
\* fewer than 260 rows remain, and otherwise every statistic is computed on
\* the remaining rows with the filled benchmark closes.
C10_BenchmarkForwardFilled ==
    FaReturned =>
        IF Cardinality(FilledDates) < 260
        THEN ~fa.pass /\ fa.features = NoFeatures
        ELSE LET r == FromAligned(FilledRows)
             IN  /\ fa.pass = r.pass
                 /\ fa.features = r.features
                 /\ fa.features.leader_peak_excess # NaN

\* fewer than 260 common dates, a gap inside the benchmark, and the gate
\* passed on the filled rows
C10_Witness ==
    /\ FaReturned
    /\ Cardinality(CommonDates) < 260
    /\ \E j \in 2..Len(df) : j \notin CommonDates /\ (j - 1) \in CommonDates
    /\ fa.pass

\* ---------------------------------------------- the Fallen Angel stages
\* the aligned rows of the inputs
Rows == Aligned(df, qqq_close.val)
\* compute_fallen_angel_rs_features has returned after computing on at
\* least 260 aligned rows
FaComputed == FaReturned /\ Len(Rows) >= 260
\* what the returned features tell: stage B ran (stage A passed), stage C
\* ran (stage B passed)
StageAPassed == fa.features.rs_near_high_pct # NaN
StageBPassed == fa.features.rs_ma20_slope # NaN
\* the rows of the trailing LEADER_PEAK_LOOKBACK_D days
PeakWindow(al) == Max2(1, Len(al) - 126 + 1)..Len(al)
\* the k-day excess return of row t is defined and at least thr thousandths:
\* s[t]/s[t-k] - b[t]/b[t-k] >= thr/1000, cross-multiplied
ExcessReaches(al, t, k, thr) ==
    /\ t > k
    /\ 1000 * (al[t][1] * al[t - k][2] - al[t][2] * al[t - k][1])
          >= thr * al[t - k][1] * al[t - k][2]

\* some 63-day excess of the trailing days reaches MIN_PEAK_EXCESS_3M or some
\* 126-day excess of them reaches MIN_PEAK_EXCESS_6M
LeaderPeakReached(al) ==
    \/ \E t \in PeakWindow(al) : ExcessReaches(al, t, 63, MIN_PEAK_EXCESS_3M)
    \/ \E t \in PeakWindow(al) : ExcessReaches(al, t, 126, MIN_PEAK_EXCESS_6M)

DdWindow(al) == (Len(al) - 126 + 1)..Len(al)
\* price_dd = 1 - c_now / highest close of the window, as a fraction
PriceDd(al) ==
    LET ph == CHOOSE x \in {al[t][1] : t \in DdWindow(al)} :
                 \A t \in DdWindow(al) : al[t][1] <= x
    IN  Frac(ph - al[Len(al)][1], ph)
\* rs_now / highest RS of the window: the least of rs_now / rs[t]
RsNearHigh(al) ==
    LET m == Len(al)
        Q == {Frac(al[m][1] * al[t][2], al[t][1] * al[m][2]) : t \in DdWindow(al)}
    IN  CHOOSE x \in Q : \A y \in Q : x[1] * y[2] <= y[1] * x[2]
\* rs_dd = 1 - rs_now / highest RS
RsDd(al) == Frac(RsNearHigh(al)[2] - RsNearHigh(al)[1], RsNearHigh(al)[2])

\* the drawdown pdd lies in [MIN_PRICE_DD, MAX_PRICE_DD], the RS stands at
\* MIN_RS_NEAR_HIGH_PCT of its high or more, and rsdd / pdd is at most
\* MAX_RS_DD_TO_PRICE_DD_RATIO (fractions, cross-multiplied)
ResilienceHolds(pdd, near, rsdd) ==
    /\ MIN_PRICE_DD * pdd[2] <= 1000 * pdd[1]
    /\ 1000 * pdd[1] <= MAX_PRICE_DD * pdd[2]
    /\ 1000 * near[1] >= MIN_RS_NEAR_HIGH_PCT * near[2]
    /\ 1000 * rsdd[1] * pdd[2] <= MAX_RS_DD_TO_PRICE_DD_RATIO * pdd[1] * rsdd[2]

\* C12: stage B passes iff MIN_PRICE_DD <= price_dd <= MAX_PRICE_DD (both
\* inclusive), rs_now over the rolling RS high is at least
\* MIN_RS_NEAR_HIGH_PCT, and rs_dd / price_dd is at most
\* MAX_RS_DD_TO_PRICE_DD_RATIO; price_dd = 0.10 with rs_dd = 0.02 passes and
\* price_dd = 0.45 fails.
C12_StageB ==
    (FaComputed /\ StageAPassed) =>
        LET pdd  == PriceDd(Rows)
            rsdd == RsDd(Rows)
        IN  /\ StageBPassed <=> ResilienceHolds(PriceDd(Rows), RsNearHigh(Rows), RsDd(Rows))
            /\ (pdd = <<1, 10>> /\ rsdd = <<1, 50>>) => StageBPassed
            /\ pdd = <<9, 20>> => ~StageBPassed /\ ~fa.pass

\* stage B passed on price_dd = 0.10 with rs_dd = 0.02
C12_Witness ==
    /\ FaComputed /\ StageAPassed /\ StageBPassed
    /\ PriceDd(Rows) = <<1, 10>>
    /\ RsDd(Rows) = <<1, 50>>

\* C13: when price_dd is 0 in stage B, the function still returns: the
\* rs_dd_vs_price_dd feature is +infinity, stage B fails and the gate
\* returns False.
C13_ZeroPriceDd ==
    (FaComputed /\ StageAPassed /\ PriceDd(Rows)[1] = 0) =>
        /\ fa.features.rs_dd_vs_price_dd = Inf
        /\ ~StageBPassed
        /\ ~fa.pass

\* stage B ran on a stock that closed at its 126-day high
C13_Witness ==
    /\ FaComputed /\ StageAPassed
    /\ PriceDd(Rows)[1] = 0
    /\ fa.features.rs_dd_vs_price_dd = Inf
    /\ fa.features.rs_near_high_pct = <<100, 1>>

\* the sum of the RS line over the RS_MA_LEN rows ending at row hi
RsWindowSum(al, hi) == RSum([x \in 1..RS_MA_LEN |-> RsAt(al, hi - RS_MA_LEN + x)])
\* rs_now > RS_MA_now: RS_MA_LEN times the last RS exceeds the window's sum
AboveRsMa(al) ==
    RLt(RsWindowSum(al, Len(al)), Frac(RS_MA_LEN * al[Len(al)][1], al[Len(al)][2]))
\* RS_MA_now against (1 + MIN_RS_MA20_SLOPE) times the RS_MA of
\* RS_SLOPE_LOOKBACK_D rows earlier: "above" or "equal"
SlopeFloor(al) ==
    LET p == RsWindowSum(al, Len(al) - RS_SLOPE_LOOKBACK_D)
    IN  Frac(p[1] * (1000 + MIN_RS_MA20_SLOPE), p[2] * 1000)
SlopeAbove(al) == RLt(SlopeFloor(al), RsWindowSum(al, Len(al)))
SlopeEqual(al) == SlopeFloor(al) = RsWindowSum(al, Len(al))

\* C15: once stages A and B have passed, stage C passes (and the gate
\* returns True) iff the last RS is strictly above its RS_MA_LEN-day average
\* and that average has risen by strictly more than MIN_RS_MA20_SLOPE over
\* RS_SLOPE_LOOKBACK_D days; equality on either comparison fails.
C15_StageC ==
    (FaComputed /\ StageBPassed) =>
        /\ fa.pass <=> (AboveRsMa(Rows) /\ SlopeAbove(Rows))
        /\ SlopeEqual(Rows) => ~fa.pass
        /\ RsWindowSum(Rows, Len(Rows))
              = Frac(RS_MA_LEN * Rows[Len(Rows)][1], Rows[Len(Rows)][2]) => ~fa.pass

\* stage C ran with the last RS above its average and a slope of exactly
\* MIN_RS_MA20_SLOPE
C15_Witness ==
    /\ FaComputed /\ StageBPassed
    /\ AboveRsMa(Rows)
    /\ SlopeEqual(Rows)
    /\ ~fa.pass

\* what stages A, B and C ask of the aligned rows, each on its own
StageAHolds == LeaderPeakReached(Rows)
StageBHolds == ResilienceHolds(PriceDd(Rows), RsNearHigh(Rows), RsDd(Rows))
StageCHolds == AboveRsMa(Rows) /\ SlopeAbove(Rows)

\* C14: the gate returns True iff stages A, B and C all pass; the bundle
\* always has exactly the four feature keys; a stage A failure leaves
\* rs_near_high_pct, rs_dd_vs_price_dd and rs_ma20_slope NaN and a stage B
\* failure leaves rs_ma20_slope NaN, whatever the later stages would say.
C14_AllStagesInOrder ==
    FaReturned =>
        /\ DOMAIN fa.features = {"leader_peak_excess", "rs_near_high_pct",
                                 "rs_dd_vs_price_dd", "rs_ma20_slope"}
        /\ fa.pass <=> (FaComputed /\ StageAHolds /\ StageBHolds /\ StageCHolds)
        /\ (FaComputed /\ ~StageAHolds) =>
              /\ fa.features.rs_near_high_pct = NaN
              /\ fa.features.rs_dd_vs_price_dd = NaN
              /\ fa.features.rs_ma20_slope = NaN
        /\ (FaComputed /\ StageAHolds /\ ~StageBHolds) =>
              /\ fa.features.rs_near_high_pct # NaN
              /\ fa.features.rs_ma20_slope = NaN

\* stage B failed on rows that meet stage C's conditions
C14_Witness ==
    /\ FaComputed /\ StageAHolds /\ ~StageBHolds /\ StageCHolds
    /\ ~fa.pass
    /\ fa.features.rs_ma20_slope = NaN

\* positions of the ticker list whose batch download came back with data
Downloaded(pos) == net.download[((pos - 1) \div YF_BATCH_SIZE) * YF_BATCH_SIZE] = "ok"
\* the scan ran to "return rows, formatted_date"
RanThrough == spc = "returned" /\ net.qqq = "ok" /\ formatted_date # ""
\* the symbols of rows, in order
RowSymbols == [x \in 1..Len(scan_ret[1]) |-> scan_ret[1][x]["Symbol"]]
\* position pos holds a frame whose evaluation raises / passes (SymbolOutcome)
Raises(pos) ==
    Downloaded(pos) /\ OutcomeOf(outcomes, KindAt(net, pos)).outcome = "raised"
Passes(pos) ==
    Downloaded(pos) /\ OutcomeOf(outcomes, KindAt(net, pos)).outcome = "passed"

\* C16: when a scan has run through, every symbol of every downloaded batch
\* has been evaluated, a symbol whose evaluation raised has no row, and the
\* returned rows are those of the passing symbols, in the list's order --
\* whichever symbols raised.
C16_BadSymbolSkipped ==
    RanThrough =>
        /\ tried = {tickers[pos] : pos \in {q \in 1..Len(tickers) : Downloaded(q)}}
        /\ \A pos \in 1..Len(tickers) :
              Raises(pos) => \A x \in 1..Len(RowSymbols) : RowSymbols[x] # tickers[pos]
        /\ RowSymbols = SelectSeq(tickers,
                                  LAMBDA s : \E pos \in 1..Len(tickers) :
                                                tickers[pos] = s /\ Passes(pos))

\* a symbol raised between two passing ones: a row collected before it is
\* returned, and so is a row of a later symbol
C16_Witness ==
    /\ RanThrough
    /\ \E pos \in 2..(Len(tickers) - 1) :
          /\ Raises(pos)
          /\ Passes(pos - 1) /\ Passes(pos + 1)
          /\ RowSymbols = <<tickers[pos - 1], tickers[pos + 1]>>

\* C17: a scan whose benchmark fetch failed and a scan that ran with a
\* benchmark and passed no symbol never return the same value.
C17_FetchFailureDistinct ==
    \A a \in seen : \A b \in seen : a[1] # b[1] => a[2] # b[2]

\* the gates diagnose_single_stock has to report on the inputs, in order
DiagGates ==
    <<"price", "liquidity", "position", "consolidation", "vdu", "tightness">>
    \o (IF ~qqq_close.is_none /\ DOMAIN qqq_close.val # {} THEN <<"rs">> ELSE << >>)
    \o <<"trend">>
\* the report names exactly those gates and is_pass is the AND of its verdicts
AllGatesReported ==
    /\ [x \in 1..Len(diag.report) |-> diag.report[x][1]] = DiagGates
    /\ diag.is_pass <=> \A x \in 1..Len(diag.report) : diag.report[x][2]

\* C18 as claimed: diagnose_single_stock reports every gate whatever failed
\* before it, and is_pass is the AND of the reported gates.
C18_NoGateSkipped == diag.called => AllGatesReported

\* C18: on a series of at least 260 rows diagnose_single_stock reports every
\* gate whatever failed before it and is_pass is the AND of the reported
\* gates; on a shorter series it returns False with no gate reported.
C18_NoGateSkippedFrom260 ==
    diag.called =>
        IF Len(df) >= 260 THEN AllGatesReported
        ELSE ~diag.is_pass /\ diag.report = << >>

\* the liquidity gate failed and a later gate was reported as passed
C18_Witness ==
    /\ diag.called
    /\ Len(diag.report) = Len(DiagGates)
    /\ diag.report[2] = <<"liquidity", FALSE>>
    /\ \E x \in 3..Len(diag.report) : diag.report[x][2]
    /\ ~diag.is_pass

\* C19: with a non-empty benchmark, diagnose_single_stock's is_pass equals
\* what check_vcp_criteria returns on the same inputs.
C19_DiagnoseAgrees ==
    (pc = "done" /\ diag.called /\ ~qqq_close.is_none /\ DOMAIN qqq_close.val # {})
        => (diag.is_pass <=> ret)

\* ---------------------------------------------- execute_scan: the preview
\* the "" that r.get(key, "") gives for a key the row does not have
Blank == << >>
\* dict.get(key, default)
Get(r, key, default) == IF key \in DOMAIN r THEN r[key] ELSE default
\* main.py lines 122-126: what the preview reads from one row
PreviewLine(r) ==
    [sym   |-> Get(r, "Symbol", Blank),
     lp    |-> Get(r, "leader_peak_excess", Blank),
     near  |-> Get(r, "rs_near_high_pct", Blank),
     ratio |-> Get(r, "rs_dd_vs_price_dd", Blank),
     slope |-> Get(r, "RS_ma20_slope", Blank)]

\* C21: every returned row has exactly the fields Symbol, leader_peak_excess,
\* rs_near_high_pct, rs_dd_vs_price_dd and rs_ma20_slope, and the preview
\* reads a feature value (not the blank default) for each of its fields.
C21_RowFields ==
    RanThrough =>
        \A x \in 1..Len(scan_ret[1]) :
            /\ DOMAIN scan_ret[1][x] = {"Symbol", "leader_peak_excess", "rs_near_high_pct",
                                        "rs_dd_vs_price_dd", "rs_ma20_slope"}
            /\ PreviewLine(scan_ret[1][x]).near # Blank
            /\ PreviewLine(scan_ret[1][x]).slope # Blank

\* the position in tickers of the symbol of a row
RowPos(row) == CHOOSE pos \in 1..Len(tickers) : tickers[pos] = row["Symbol"]
\* a feature that is neither NaN nor infinite
Finite(x) == x[2] # 0

\* C22: every row collected by scan_market belongs to a symbol for which
\* compute_fallen_angel_rs_features returned True, and its four features
\* (under the keys the code gives them) are finite and meet the stage
\* thresholds: peak excess at least the lower of the two peak thresholds,
\* rs_near_high_pct >= 100 x MIN_RS_NEAR_HIGH_PCT, rs_dd_vs_price_dd <=
\* MAX_RS_DD_TO_PRICE_DD_RATIO, rs_ma20_slope > 100 x MIN_RS_MA20_SLOPE.
C22_RowsPassedRs ==
    \A x \in 1..Len(rows) :
        /\ OutcomeOf(outcomes, KindAt(net, RowPos(rows[x]))).rs_pass
        /\ Finite(rows[x]["leader_peak_excess"])
        /\ Finite(rows[x]["rs_near_high%"])
        /\ Finite(rows[x]["rs_dd_vs_price_dd"])
        /\ Finite(rows[x]["RS_ma20_slope"])
        /\ RGeMille(rows[x]["leader_peak_excess"],
                    100 * Min2(MIN_PEAK_EXCESS_3M, MIN_PEAK_EXCESS_6M))
        /\ RGeMille(rows[x]["rs_near_high%"], 100 * MIN_RS_NEAR_HIGH_PCT)
        /\ RLeMille(rows[x]["rs_dd_vs_price_dd"], MAX_RS_DD_TO_PRICE_DD_RATIO)
        /\ RGtMille(rows[x]["RS_ma20_slope"], 100 * MIN_RS_MA20_SLOPE)

\* a scan returned a row although it also evaluated a symbol that passes
\* every gate but the RS gate, which has no row
C22_Witness ==
    /\ RanThrough
    /\ Len(scan_ret[1]) > 0
    /\ \E pos \in 1..Len(tickers) :
          /\ Downloaded(pos)
          /\ KindAt(net, pos) = "flat"
          /\ tickers[pos] \in tried
          /\ \A x \in 1..Len(scan_ret[1]) : scan_ret[1][x]["Symbol"] # tickers[pos]

\* ---- yf_download_with_retry
RetryDone == rpc = "done"
\* the yf.download calls that raised
Failed == {k \in 1..Len(calls) : calls[k].raised}
\* how many of them have had their handler run to its end
Handled == Cardinality(Failed) - (IF rpc = "except" THEN 1 ELSE 0)
AtMostMaxAttempts == Len(calls) <= YF_MAX_RETRIES
FirstSuccessReturned ==
    \A k \in 1..Len(calls) :
        ~calls[k].raised => /\ k = Len(calls)
                            /\ RetryDone
                            /\ retry_ret = Returned(calls[k].value)
SleptAfterEachFailure ==
    /\ Len(slept) = Handled
    /\ \A k \in 1..Len(slept) :
          /\ calls[k].raised
          /\ slept[k] = YF_BACKOFF_BASE_SEC * 2 ^ (k - 1)
LastErrorRaised ==
    (/\ RetryDone
     /\ YF_MAX_RETRIES > 0
     /\ Len(calls) = YF_MAX_RETRIES
     /\ \A k \in 1..Len(calls) : calls[k].raised)
        => retry_ret = Raised(calls[YF_MAX_RETRIES].value)

\* C23: yf_download_with_retry calls yf.download at most YF_MAX_RETRIES times;
\* the first call that does not raise is the last call and its result is
\* returned; after every call that raised, the last one included, it sleeps
\* YF_BACKOFF_BASE_SEC x 2^(attempt-1); after YF_MAX_RETRIES calls that all
\* raised it raises the error of the last; and every call comes to an end.
C23_RetryBounded ==
    /\ [](AtMostMaxAttempts /\ FirstSuccessReturned /\ SleptAfterEachFailure
          /\ LastErrorRaised)
    /\ <>RetryDone
\* every attempt failed, with different errors, and the call has ended after
\* sleeping once more
C23_Witness ==
    /\ RetryDone
    /\ YF_MAX_RETRIES = MaxRetries
    /\ YF_BACKOFF_BASE_SEC > 0
    /\ Len(calls) = YF_MAX_RETRIES
    /\ \A k \in 1..Len(calls) : calls[k].raised
    /\ calls[1].value # calls[YF_MAX_RETRIES].value
    /\ Len(slept) = YF_MAX_RETRIES
    /\ retry_ret.raised

====
